---- MODULE Spec2Model ----
(***************************************************************************)
(* Stable Index Vector (oissevalt/siv, siv.go).                            *)
(*                                                                         *)
(* The container SIV[T] keeps three slices: data (the live items, dense),  *)
(* meta (one {rid, vid} entry per slot ever allocated) and indices (rid -> *)
(* slot position).  A Handle is a {rid, vid} pair.  Positions and          *)
(* reference ids are 0-based as in the Go code; a Go slice s is a TLA+     *)
(* sequence and s[i] is written At(s, i).                                  *)
(***************************************************************************)
EXTENDS Integers, Sequences, FiniteSets, TLC

\* Bounds of the model.
MaxLen == 2
MaxVid == 2
MaxVal == 2

\* The items stored (T = int in siv_test.go); Zero is T's zero value, the
\* value of a named result that was never assigned.
Values == 1..MaxVal
Zero == 0

\* Every handle value a caller can pass, issued by Put or not.
Handles == [rid : -1..MaxLen, vid : 0..MaxVid]
ZeroHandle == [rid |-> 0, vid |-> 0]
NoHandle == [rid |-> -2, vid |-> -2]

\* The callers that use one container without serializing their calls, and
\* the locals of a goroutine that is in no call.
Goroutines == {1, 2}
NoCall == [op |-> "none", item |-> Zero, h |-> NoHandle, id |-> 0, id2 |-> 0,
           rid2 |-> 0, ret |-> NoHandle, err |-> "nil", calls |-> 0]

VARIABLES
    data,        \* s.data
    indices,     \* s.indices
    meta,        \* s.meta
    retH,        \* the handle the last call returned (NoHandle when it returns none)
    retV,        \* the item the last call returned (Zero when it returns none)
    err,         \* the last call's error: "nil", "ErrInvalid", "ErrExpired", or "panic"
    viaPop,      \* whether the last call was Pop
    live,        \* history: handle returned by Put, item not removed -> value last stored through it
    dead,        \* history: handles returned by Put whose item was removed
    nPut,        \* history: number of Put calls
    nRem,        \* history: number of successful Remove calls plus Pop calls
    nAlloc,      \* history: number of reference ids allocated
    nRemoved,    \* history: rid -> number of removals of that id's item
    nReused,     \* history: rid -> number of Puts that reused that id
    run,         \* history: rids removed since the last Put, not yet reused, oldest first
    served,      \* history: number of Puts since the last removal that reused a slot of run
    lastRemoved, \* history: the handle removed by the last mutation, NoHandle after a Put
    maxLen,      \* history: the largest value Len() has had
    pc,          \* unserialized callers: goroutine -> the line of siv.go it is about to execute
    loc,         \* unserialized callers: goroutine -> the locals and results of its call
    overlap      \* unserialized callers: whether two calls have been in progress at once

core == <<data, indices, meta>>
call == <<retH, retV, err, viaPop>>
hist == <<live, dead, nPut, nRem, nAlloc, nRemoved, nReused, run, served, lastRemoved, maxLen>>
conc == <<pc, loc, overlap>>
vars == <<data, indices, meta, retH, retV, err, viaPop,
          live, dead, nPut, nRem, nAlloc, nRemoved, nReused, run, served, lastRemoved,
          maxLen, pc, loc, overlap>>

\* s[i] of a Go slice, 0-based.
At(s, i) == s[i + 1]

\* s[i] = x
AtPut(s, i, x) == [s EXCEPT ![i + 1] = x]

\* s[i], s[j] = s[j], s[i]
Swap(s, i, j) == [s EXCEPT ![i + 1] = s[j + 1], ![j + 1] = s[i + 1]]

\* Len: len(s.data)
SivLen == Len(data)

----------------------------------------------------------------------------
\* findID with the generation test dropped.
findIDNoVid(h) ==
    IF h.rid < 0 \/ h.rid >= Len(indices)
    THEN [id |-> 0, err |-> "ErrInvalid"]
    ELSE [id |-> At(indices, h.rid), err |-> "nil"]

\* findID reporting a generation mismatch as ErrInvalid.
findIDOneError(h) ==
    IF h.rid < 0 \/ h.rid >= Len(indices)
    THEN [id |-> 0, err |-> "ErrInvalid"]
    ELSE LET id == At(indices, h.rid) IN
         IF At(meta, id).vid # h.vid
         THEN [id |-> 0, err |-> "ErrInvalid"]
         ELSE [id |-> id, err |-> "nil"]

\* findID: the position of h's item, or the error.
findID(h) ==
    IF h.rid < 0 \/ h.rid >= Len(indices)
    THEN [id |-> 0, err |-> "ErrInvalid"]
    ELSE LET id == At(indices, h.rid) IN
         IF At(meta, id).vid # h.vid
         THEN [id |-> 0, err |-> "ErrExpired"]
         ELSE [id |-> id, err |-> "nil"]

\* Get: s.data[id] faults (index out of range) when id >= len(s.data).
GetRes(h) ==
    LET r == findID(h) IN
    IF r.err # "nil" THEN [item |-> Zero, err |-> r.err]
    ELSE IF r.id >= Len(data) THEN [item |-> Zero, err |-> "panic"]
    ELSE [item |-> At(data, r.id), err |-> "nil"]

\* Set that returns the old value and stores nothing.
SetStoreNothing(d, id, v) == d

\* Set that stores v at every position.
SetStoreAll(d, id, v) == [i \in DOMAIN d |-> v]

\* Set, line 63: s.data[id] = v
SetStore(d, id, v) == AtPut(d, id, v)

\* Set: the old value, the error and s.data afterwards.
SetRes(h, v) ==
    LET r == findID(h) IN
    IF r.err # "nil" THEN [old |-> Zero, err |-> r.err, data |-> data]
    ELSE IF r.id >= Len(data) THEN [old |-> Zero, err |-> "panic", data |-> data]
    ELSE [old |-> At(data, r.id), err |-> "nil", data |-> SetStore(data, r.id, v)]

\* Put reusing a slot without a new generation.
PutReuseKeepVid(m, id) == m

\* Put, line 80: s.meta[id].vid++
PutReuse(m, id) == [m EXCEPT ![id + 1].vid = @ + 1]

\* Put that never reuses a freed slot.
PutResAlwaysNew(item) ==
    [h |-> [rid |-> Len(data), vid |-> 0], data |-> Append(data, item),
     indices |-> Append(indices, Len(data)),
     meta |-> Append(meta, [rid |-> Len(data), vid |-> 0])]

\* Put: the handle returned and the three slices afterwards.
PutRes(item) ==
    LET id == Len(data) IN
    IF Len(meta) > Len(data)
    THEN LET m == PutReuse(meta, id) IN
         [h |-> At(m, id), data |-> Append(data, item),
          indices |-> indices, meta |-> m]
    ELSE [h |-> [rid |-> id, vid |-> 0], data |-> Append(data, item),
          indices |-> Append(indices, id),
          meta |-> Append(meta, [rid |-> id, vid |-> 0])]

\* Remove leaving the indirection table as it was.
RemoveSwapIndicesNot(ind, rid1, rid2) == ind

\* Remove, line 113: s.indices[rid1], s.indices[rid2] = s.indices[rid2], s.indices[rid1]
RemoveSwapIndices(ind, rid1, rid2) == Swap(ind, rid1, rid2)

\* Remove leaving the slot metadata in place.
RemoveSwapMetaNot(m, id1, id2) == m

\* Remove, line 112: s.meta[id1], s.meta[id2] = s.meta[id2], s.meta[id1]
RemoveSwapMeta(m, id1, id2) == Swap(m, id1, id2)

\* Remove that keeps the generation of the vacated slot.
RemoveKeepVid(m, id2) == m

\* Remove that advances the generation of the vacated slot by two.
RemoveBumpTwice(m, id2) == [m EXCEPT ![id2 + 1].vid = @ + 2]

\* Remove, line 115: s.meta[id2].vid++
RemoveBump(m, id2) == [m EXCEPT ![id2 + 1].vid = @ + 1]

\* Remove that does not shorten s.data.
RemoveShrinkNot(d) == d

\* Remove that drops the first item instead of the last.
RemoveShrinkFront(d) == SubSeq(d, 2, Len(d))

\* Remove, line 116: s.data = s.data[:len(s.data)-1]
RemoveShrink(d) == SubSeq(d, 1, Len(d) - 1)

\* Remove: the item returned, the error and the three slices afterwards.
\* s.data[id1] (line 108) faults when id1 >= len(s.data), before any write.
RemoveRes(h) ==
    LET r == findID(h) IN
    IF r.err # "nil"
    THEN [item |-> Zero, err |-> r.err, data |-> data, indices |-> indices, meta |-> meta]
    ELSE IF r.id >= Len(data)
    THEN [item |-> Zero, err |-> "panic", data |-> data, indices |-> indices, meta |-> meta]
    ELSE LET id1 == r.id
             id2 == Len(data) - 1
             rid1 == h.rid
             rid2 == At(meta, id2).rid
             d1 == IF id1 # id2 THEN Swap(data, id1, id2) ELSE data
             m1 == IF id1 # id2 THEN RemoveSwapMeta(meta, id1, id2) ELSE meta
             i1 == IF id1 # id2 THEN RemoveSwapIndices(indices, rid1, rid2) ELSE indices
         IN [item |-> At(data, id1), err |-> "nil", data |-> RemoveShrink(d1),
             indices |-> i1, meta |-> RemoveBump(m1, id2)]

\* Pop taking the handle of the first position.
PopHandleFirst == At(meta, 0)

\* Pop, line 96: the handle of the last live position.
PopHandle == At(meta, Len(data) - 1)

\* Iter2 looking the handle up through the indirection table.
Iter2HandleByRid(i) == At(meta, At(indices, i))

\* Iter2, line 149: h := Handle[T](s.meta[i])
Iter2Handle(i) == At(meta, i)

\* Iter, lines 135-139: the loop from position i on, out being what was
\* yielded so far; the consumer's yield returns false on its call number
\* stopAt (never, when stopAt = 0).
RECURSIVE IterLoop(_, _, _)
IterLoop(i, stopAt, out) ==
    IF i >= Len(data) THEN out
    ELSE LET out2 == Append(out, At(data, i)) IN
         IF Len(out2) = stopAt THEN out2 ELSE IterLoop(i + 1, stopAt, out2)

\* Iter2, lines 148-152: the same loop, yielding (handle, item).
RECURSIVE Iter2Loop(_, _, _)
Iter2Loop(i, stopAt, out) ==
    IF i >= Len(data) THEN out
    ELSE LET out2 == Append(out, [h |-> Iter2Handle(i), v |-> At(data, i)]) IN
         IF Len(out2) = stopAt THEN out2 ELSE Iter2Loop(i + 1, stopAt, out2)

\* What one pass of Iter / Iter2 yields to a consumer that stops at stopAt.
IterYield(stopAt) == IterLoop(0, stopAt, <<>>)
Iter2Yield(stopAt) == Iter2Loop(0, stopAt, <<>>)

----------------------------------------------------------------------------
\* The state of the zero value SIV[int]{} (and of WithCapacity(n)): three
\* empty slices.
Init ==
    /\ data = <<>>
    /\ indices = <<>>
    /\ meta = <<>>
    /\ retH = NoHandle
    /\ retV = Zero
    /\ err = "nil"
    /\ viaPop = FALSE
    /\ live = <<>>
    /\ dead = {}
    /\ nPut = 0
    /\ nRem = 0
    /\ nAlloc = 0
    /\ nRemoved = [r \in 0..(MaxLen - 1) |-> 0]
    /\ nReused = [r \in 0..(MaxLen - 1) |-> 0]
    /\ run = <<>>
    /\ served = 0
    /\ lastRemoved = NoHandle
    /\ maxLen = 0
    /\ pc = [t \in Goroutines |-> "idle"]
    /\ loc = [t \in Goroutines |-> NoCall]
    /\ overlap = FALSE

\* The history of a removal of handle h.
Removed(h) ==
    /\ live' = [x \in (DOMAIN live) \ {h} |-> live[x]]
    /\ dead' = dead \cup {h}
    /\ nRem' = nRem + 1
    /\ nRemoved' = [nRemoved EXCEPT ![h.rid] = @ + 1]
    /\ run' = IF lastRemoved # NoHandle THEN Append(run, h.rid) ELSE <<h.rid>>
    /\ served' = 0
    /\ lastRemoved' = h
    /\ UNCHANGED <<nPut, nAlloc, nReused, maxLen>>

\* s.Get(h)
Get(h) ==
    /\ retH' = NoHandle
    /\ retV' = GetRes(h).item
    /\ err' = GetRes(h).err
    /\ viaPop' = FALSE
    /\ UNCHANGED <<core, hist, conc>>

\* s.Set(h, v)
Set(h, v) ==
    LET r == SetRes(h, v) IN
    /\ data' = r.data
    /\ retH' = NoHandle
    /\ retV' = r.old
    /\ err' = r.err
    /\ viaPop' = FALSE
    /\ live' = IF r.err = "nil" /\ h \in DOMAIN live THEN [live EXCEPT ![h] = v] ELSE live
    /\ UNCHANGED <<indices, meta, dead, nPut, nRem, nAlloc, nRemoved, nReused,
                   run, served, lastRemoved, maxLen, conc>>

\* s.Put(item).  The model stops at MaxLen live items and at generation MaxVid.
Put(item) ==
    LET r == PutRes(item) IN
    /\ Len(data) < MaxLen
    /\ Len(meta) > Len(data) => At(meta, Len(data)).vid < MaxVid
    /\ data' = r.data
    /\ indices' = r.indices
    /\ meta' = r.meta
    /\ retH' = r.h
    /\ retV' = Zero
    /\ err' = "nil"
    /\ viaPop' = FALSE
    /\ live' = (r.h :> item) @@ live
    /\ nPut' = nPut + 1
    /\ nAlloc' = IF Len(r.indices) > Len(indices) THEN nAlloc + 1 ELSE nAlloc
    /\ nReused' = IF Len(r.indices) > Len(indices) THEN nReused
                  ELSE [nReused EXCEPT ![r.h.rid] = @ + 1]
    /\ run' = IF run = <<>> THEN run ELSE SubSeq(run, 1, Len(run) - 1)
    /\ served' = IF run = <<>> THEN served ELSE served + 1
    /\ lastRemoved' = NoHandle
    /\ maxLen' = IF Len(r.data) > maxLen THEN Len(r.data) ELSE maxLen
    /\ UNCHANGED <<dead, nRem, nRemoved, conc>>

\* s.Remove(h).  The model stops at generation MaxVid.
Remove(h) ==
    LET r == RemoveRes(h) IN
    /\ r.err = "nil" => h.vid < MaxVid
    /\ data' = r.data
    /\ indices' = r.indices
    /\ meta' = r.meta
    /\ retH' = NoHandle
    /\ retV' = r.item
    /\ err' = r.err
    /\ viaPop' = FALSE
    /\ IF r.err = "nil" THEN Removed(h) ELSE UNCHANGED hist
    /\ UNCHANGED conc

\* s.Pop(): panics on the empty container, else Remove of the last live
\* position's handle, whose error is dropped.
Pop ==
    IF Len(data) = 0
    THEN /\ retH' = NoHandle
         /\ retV' = Zero
         /\ err' = "panic"
         /\ viaPop' = TRUE
         /\ UNCHANGED <<core, hist, conc>>
    ELSE LET h == PopHandle
             r == RemoveRes(h) IN
         /\ r.err = "nil" => h.vid < MaxVid
         /\ data' = r.data
         /\ indices' = r.indices
         /\ meta' = r.meta
         /\ retH' = NoHandle
         /\ retV' = r.item
         /\ err' = IF r.err = "panic" THEN "panic" ELSE "nil"
         /\ viaPop' = TRUE
         /\ IF r.err = "nil" THEN Removed(h) ELSE UNCHANGED hist
         /\ UNCHANGED conc

Next ==
    \/ \E item \in Values : Put(item)
    \/ \E h \in Handles : Get(h)
    \/ \E h \in Handles, v \in Values : Set(h, v)
    \/ \E h \in Handles : Remove(h)
    \/ Pop

Spec == Init /\ [][Next]_vars

----------------------------------------------------------------------------
(***************************************************************************)
(* Callers that do not serialize their calls.  Each goroutine runs Put and *)
(* Remove one source line at a time, and the lines of two goroutines       *)
(* interleave; every line reads and writes the shared slices as a whole    *)
(* (the interleavings of a sequentially consistent execution, which are    *)
(* among the outcomes of the data race).  An index or slice expression out *)
(* of range panics and ends the goroutine.  The goroutines make at most    *)
(* MaxCalls calls together.                                                *)
(***************************************************************************)
MaxCalls == MaxLen + 1

TotalCalls == loc[1].calls + loc[2].calls

Goto(t, label) == pc' = [pc EXCEPT ![t] = label]

Panic(t) == Goto(t, "panicked") /\ UNCHANGED <<core, loc>>

InRange(s, i) == i >= 0 /\ i < Len(s)

\* The handles a caller can hold for the items now stored.
Held == {At(meta, p) : p \in {q \in 0..(Len(data) - 1) : q < Len(meta)}}

\* A goroutine calls s.Put(item).
CallPut(t, item) ==
    /\ pc[t] = "idle"
    /\ TotalCalls < MaxCalls
    /\ Len(data) < MaxLen
    /\ Len(meta) > Len(data) => At(meta, Len(data)).vid < MaxVid
    /\ loc' = [loc EXCEPT ![t] = [NoCall EXCEPT !.op = "Put", !.item = item,
                                                !.calls = loc[t].calls + 1]]
    /\ Goto(t, "put77")
    /\ overlap' = (overlap \/ \E u \in Goroutines \ {t} : pc[u] # "idle")
    /\ UNCHANGED <<core, call, hist>>

\* line 77: id := len(s.data)
Put77(t) ==
    /\ pc[t] = "put77"
    /\ loc' = [loc EXCEPT ![t].id = Len(data)]
    /\ Goto(t, "put78")
    /\ UNCHANGED <<core, call, hist, overlap>>

\* line 78: if len(s.meta) > len(s.data)
Put78(t) ==
    /\ pc[t] = "put78"
    /\ Goto(t, IF Len(meta) > Len(data) THEN "put79" ELSE "put83")
    /\ UNCHANGED <<core, loc, call, hist, overlap>>

\* lines 79 and 83: s.data = append(s.data, item)
PutAppendData(t) ==
    /\ pc[t] \in {"put79", "put83"}
    /\ data' = Append(data, loc[t].item)
    /\ Goto(t, IF pc[t] = "put79" THEN "put80" ELSE "put84")
    /\ UNCHANGED <<indices, meta, loc, call, hist, overlap>>

\* line 80: s.meta[id].vid++
Put80(t) ==
    /\ pc[t] = "put80"
    /\ IF InRange(meta, loc[t].id)
       THEN /\ meta' = PutReuse(meta, loc[t].id)
            /\ Goto(t, "put81")
            /\ UNCHANGED <<data, indices, loc>>
       ELSE Panic(t)
    /\ UNCHANGED <<call, hist, overlap>>

\* line 81: return Handle[T](s.meta[id])
Put81(t) ==
    /\ pc[t] = "put81"
    /\ IF InRange(meta, loc[t].id)
       THEN /\ loc' = [loc EXCEPT ![t].ret = At(meta, loc[t].id)]
            /\ Goto(t, "idle")
            /\ UNCHANGED core
       ELSE Panic(t)
    /\ UNCHANGED <<call, hist, overlap>>

\* line 84: s.indices = append(s.indices, id)
Put84(t) ==
    /\ pc[t] = "put84"
    /\ indices' = Append(indices, loc[t].id)
    /\ Goto(t, "put85")
    /\ UNCHANGED <<data, meta, loc, call, hist, overlap>>

\* line 85: s.meta = append(s.meta, metadata{id, 0})
Put85(t) ==
    /\ pc[t] = "put85"
    /\ meta' = Append(meta, [rid |-> loc[t].id, vid |-> 0])
    /\ Goto(t, "put86")
    /\ UNCHANGED <<data, indices, loc, call, hist, overlap>>

\* line 86: return Handle[T]{id, 0}
Put86(t) ==
    /\ pc[t] = "put86"
    /\ loc' = [loc EXCEPT ![t].ret = [rid |-> loc[t].id, vid |-> 0]]
    /\ Goto(t, "idle")
    /\ UNCHANGED <<core, call, hist, overlap>>

\* A goroutine calls s.Remove(h) with a handle it holds.
CallRemove(t, h) ==
    /\ pc[t] = "idle"
    /\ TotalCalls < MaxCalls
    /\ h \in Held
    /\ h.vid < MaxVid
    /\ loc' = [loc EXCEPT ![t] = [NoCall EXCEPT !.op = "Remove", !.h = h,
                                                !.calls = loc[t].calls + 1]]
    /\ Goto(t, "rem102")
    /\ overlap' = (overlap \/ \E u \in Goroutines \ {t} : pc[u] # "idle")
    /\ UNCHANGED <<core, call, hist>>

\* lines 102-106: id1, err2 := s.findID(h); s.meta[id] in findID (line 125)
\* is out of range when the indirection entry points past s.meta.
Rem102(t) ==
    /\ pc[t] = "rem102"
    /\ LET h == loc[t].h IN
       IF InRange(indices, h.rid) /\ ~InRange(meta, At(indices, h.rid))
       THEN Panic(t)
       ELSE /\ loc' = [loc EXCEPT ![t].id = findID(h).id, ![t].err = findID(h).err]
            /\ Goto(t, IF findID(h).err = "nil" THEN "rem107" ELSE "idle")
            /\ UNCHANGED core
    /\ UNCHANGED <<call, hist, overlap>>

\* line 107: id2 := len(s.data) - 1
Rem107(t) ==
    /\ pc[t] = "rem107"
    /\ loc' = [loc EXCEPT ![t].id2 = Len(data) - 1]
    /\ Goto(t, "rem108")
    /\ UNCHANGED <<core, call, hist, overlap>>

\* line 108: item = s.data[id1]
Rem108(t) ==
    /\ pc[t] = "rem108"
    /\ IF InRange(data, loc[t].id)
       THEN /\ loc' = [loc EXCEPT ![t].item = At(data, loc[t].id)]
            /\ Goto(t, "rem109")
            /\ UNCHANGED core
       ELSE Panic(t)
    /\ UNCHANGED <<call, hist, overlap>>

\* lines 109-110: rid1, rid2 := h.rid, s.meta[id2].rid; if id1 != id2
Rem109(t) ==
    /\ pc[t] = "rem109"
    /\ IF InRange(meta, loc[t].id2)
       THEN /\ loc' = [loc EXCEPT ![t].rid2 = At(meta, loc[t].id2).rid]
            /\ Goto(t, IF loc[t].id # loc[t].id2 THEN "rem111" ELSE "rem115")
            /\ UNCHANGED core
       ELSE Panic(t)
    /\ UNCHANGED <<call, hist, overlap>>

\* line 111: s.data[id1], s.data[id2] = s.data[id2], s.data[id1]
Rem111(t) ==
    /\ pc[t] = "rem111"
    /\ IF InRange(data, loc[t].id) /\ InRange(data, loc[t].id2)
       THEN /\ data' = Swap(data, loc[t].id, loc[t].id2)
            /\ Goto(t, "rem112")
            /\ UNCHANGED <<indices, meta, loc>>
       ELSE Panic(t)
    /\ UNCHANGED <<call, hist, overlap>>

\* line 112: s.meta[id1], s.meta[id2] = s.meta[id2], s.meta[id1]
Rem112(t) ==
    /\ pc[t] = "rem112"
    /\ IF InRange(meta, loc[t].id) /\ InRange(meta, loc[t].id2)
       THEN /\ meta' = RemoveSwapMeta(meta, loc[t].id, loc[t].id2)
            /\ Goto(t, "rem113")
            /\ UNCHANGED <<data, indices, loc>>
       ELSE Panic(t)
    /\ UNCHANGED <<call, hist, overlap>>

\* line 113: s.indices[rid1], s.indices[rid2] = s.indices[rid2], s.indices[rid1]
Rem113(t) ==
    /\ pc[t] = "rem113"
    /\ IF InRange(indices, loc[t].h.rid) /\ InRange(indices, loc[t].rid2)
       THEN /\ indices' = RemoveSwapIndices(indices, loc[t].h.rid, loc[t].rid2)
            /\ Goto(t, "rem115")
            /\ UNCHANGED <<data, meta, loc>>
       ELSE Panic(t)
    /\ UNCHANGED <<call, hist, overlap>>

\* line 115: s.meta[id2].vid++
Rem115(t) ==
    /\ pc[t] = "rem115"
    /\ IF InRange(meta, loc[t].id2)
       THEN /\ meta' = RemoveBump(meta, loc[t].id2)
            /\ Goto(t, "rem116")
            /\ UNCHANGED <<data, indices, loc>>
       ELSE Panic(t)
    /\ UNCHANGED <<call, hist, overlap>>

\* lines 116-117: s.data = s.data[:len(s.data)-1]; return
Rem116(t) ==
    /\ pc[t] = "rem116"
    /\ IF Len(data) > 0
       THEN /\ data' = RemoveShrink(data)
            /\ Goto(t, "idle")
            /\ UNCHANGED <<indices, meta, loc>>
       ELSE Panic(t)
    /\ UNCHANGED <<call, hist, overlap>>

NextConc ==
    \E t \in Goroutines :
        \/ \E item \in Values : CallPut(t, item)
        \/ Put77(t)
        \/ Put78(t)
        \/ PutAppendData(t)
        \/ Put80(t)
        \/ Put81(t)
        \/ Put84(t)
        \/ Put85(t)
        \/ Put86(t)
        \/ \E h \in Handles : CallRemove(t, h)
        \/ Rem102(t)
        \/ Rem107(t)
        \/ Rem108(t)
        \/ Rem109(t)
        \/ Rem111(t)
        \/ Rem112(t)
        \/ Rem113(t)
        \/ Rem115(t)
        \/ Rem116(t)

SpecConc == Init /\ [][NextConc]_vars

----------------------------------------------------------------------------
\* The handles Put has returned so far.
Issued == (DOMAIN live) \cup dead

\* The errors Get, Set and Remove return for handle h in the current state.
Errs(h) == {GetRes(h).err, RemoveRes(h).err} \cup {SetRes(h, v).err : v \in Values}

\* The generation currently bound to reference id r (r allocated).
CurVid(r) ==
    LET p == CHOOSE q \in 0..(Len(meta) - 1) : At(meta, q).rid = r
    IN At(meta, p).vid

\* C1 -- Handle stability: every handle returned by Put whose item has not
\* been removed resolves, after any sequence of calls, to the value last
\* stored through it, wherever swaps have moved the item.
HandleStability ==
    \A b \in DOMAIN live : GetRes(b) = [item |-> live[b], err |-> "nil"]

\* C1 witness: just after a successful removal, a live handle first issued
\* at position rid resolves at another position (its item was swapped).
HandleStabilityWitness ==
    /\ lastRemoved # NoHandle
    /\ \E b \in DOMAIN live : b.vid = 0 /\ findID(b).err = "nil" /\ findID(b).id # b.rid

\* C2 -- Expiry: once the item of a handle returned by Put has been removed
\* (by Remove or Pop), Get, Set and Remove on that handle return ErrExpired
\* in every later state, also after its reference id has been reused.
Expiry ==
    \A h \in dead : Errs(h) = {"ErrExpired"}

\* C2 witness: a removed handle whose reference id a later Put has reused.
ExpiryWitness ==
    \E h \in dead : \E b \in DOMAIN live : b.rid = h.rid /\ b.vid > h.vid

\* C3 -- Get, Set and Remove with any handle value whatsoever either act on
\* a live item or return ErrInvalid / ErrExpired; they never fault.
NoFault ==
    \A h \in Handles :
        /\ Errs(h) \subseteq {"nil", "ErrInvalid", "ErrExpired"}
        /\ findID(h).err = "nil" => findID(h).id < Len(data)

\* C4 -- Invalid-id rejection: a handle whose reference id was never
\* allocated gets ErrInvalid from Get, Set and Remove; a handle whose
\* reference id is allocated but whose generation is not the one currently
\* bound to that id gets ErrExpired.
InvalidIdRejection ==
    \A h \in Handles :
        /\ (h.rid < 0 \/ h.rid >= nAlloc) => Errs(h) = {"ErrInvalid"}
        /\ (h.rid \in 0..(nAlloc - 1) /\ h.vid # CurVid(h.rid)) => Errs(h) = {"ErrExpired"}

\* C4 witness: with a removed handle outstanding, a call has just returned
\* ErrExpired.
InvalidIdRejectionWitness ==
    /\ dead # {}
    /\ err = "ErrExpired"

\* C5 as stated -- every handle Put never returned, and the zero handle
\* (0, 0) in particular, gets ErrInvalid from Get, Set and Remove.
NeverIssuedIsInvalid ==
    \A h \in (Handles \ Issued) \cup {ZeroHandle} : Errs(h) = {"ErrInvalid"}

\* C5 amended -- a handle Put never returned never resolves to an item, and
\* gets ErrInvalid exactly when its reference id was never allocated; the
\* zero handle (0, 0) is such a handle only until the first Put, which
\* returns exactly (0, 0): from then on it resolves to that item while the
\* item is live and gets ErrExpired once the item is removed.
NeverIssuedNeverResolves ==
    /\ \A h \in Handles \ Issued :
        /\ "nil" \notin Errs(h)
        /\ Errs(h) = {"ErrInvalid"} <=> (h.rid < 0 \/ h.rid >= nAlloc)
    /\ ZeroHandle \in Issued <=> nAlloc > 0
    /\ nAlloc = 0 => Errs(ZeroHandle) = {"ErrInvalid"}
    /\ ZeroHandle \in DOMAIN live =>
           GetRes(ZeroHandle) = [item |-> live[ZeroHandle], err |-> "nil"]
    /\ ZeroHandle \in dead => Errs(ZeroHandle) = {"ErrExpired"}

\* C5 witness: the zero handle is the live handle of the first item, nothing
\* was removed yet, and a call with a handle Put never returned was just
\* rejected with ErrExpired.
NeverIssuedWitness ==
    /\ ZeroHandle \in DOMAIN live
    /\ dead = {}
    /\ err = "ErrExpired"

\* C6 -- Reuse stacking: a Put that follows removals not yet reused returns
\* the reference id of the latest of them (so N removals are reused by the
\* next N Puts in reverse order), allocates no reference id, and returns a
\* generation greater than that of every handle issued before for that id.
ReuseStacking ==
    [][(retH' # NoHandle /\ run # <<>>) =>
          /\ retH'.rid = run[Len(run)]
          /\ Len(indices') = Len(indices)
          /\ \A h \in Issued : h.rid = retH'.rid => h.vid < retH'.vid]_vars

\* C6 witness: the second of two Puts that reuse the slots of two removals
\* made with no Put in between has just returned.
ReuseStackingWitness ==
    /\ retH # NoHandle
    /\ served = 2

\* C7 as stated -- the Put that reuses the slot just freed by Remove(h)
\* returns h's reference id with generation h.vid + 1.
ReuseGenerationPlusOne ==
    [][(retH' # NoHandle /\ lastRemoved # NoHandle) =>
          retH' = [rid |-> lastRemoved.rid, vid |-> lastRemoved.vid + 1]]_vars

\* C7 amended -- the Put that reuses the slot just freed by Remove(h)
\* returns h's reference id with generation h.vid + 2.
ReuseGenerationPlusTwo ==
    [][(retH' # NoHandle /\ lastRemoved # NoHandle) =>
          retH' = [rid |-> lastRemoved.rid, vid |-> lastRemoved.vid + 2]]_vars

\* C7 witness: the first Put after a removal has just returned a reused
\* reference id.
ReuseGenerationWitness ==
    /\ retH # NoHandle
    /\ retH.vid >= 2
    /\ served = 1

\* C8 -- The generation bound to a reference id is 0 at allocation and is
\* the number of removals of that id's item plus the number of Puts that
\* reused the id; the handles issued for one id have generations 0, 2, 4,
\* ..., the k-th one 2*(k-1).
GenerationAccounting ==
    /\ \A p \in 0..(Len(meta) - 1) :
           At(meta, p).vid = nRemoved[At(meta, p).rid] + nReused[At(meta, p).rid]
    /\ \A r \in 0..(nAlloc - 1) :
           {h.vid : h \in {x \in Issued : x.rid = r}} = {2 * j : j \in 0..nReused[r]}
    /\ retH # NoHandle => retH.vid = 2 * nReused[retH.rid]

\* C8 witness: Put has just returned the second handle of a reference id,
\* with generation 2.
GenerationAccountingWitness ==
    /\ retH # NoHandle
    /\ retH.vid = 2
    /\ nReused[retH.rid] = 1

\* C9 -- Round trip: Get on the handle Put(item) returns gives item; a
\* successful Set(h, v) returns what Get(h) gave just before, and Get(h)
\* gives v just after.  (Only Put returns a handle; a successful Set
\* returns none, no error, and removes nothing.)
RoundTrip ==
    [][/\ retH' # NoHandle =>
              \A item \in Values : Put(item) =>
                  \A h \in Handles \cup {NoHandle} :
                      retH' = h => GetRes(h)' = [item |-> item, err |-> "nil"]
       /\ (retH' = NoHandle /\ err' = "nil" /\ nRem' = nRem) =>
              \A h \in Handles, v \in Values : Set(h, v) =>
                  /\ GetRes(h) = [item |-> retV', err |-> "nil"]
                  /\ GetRes(h)' = [item |-> v, err |-> "nil"]]_vars

\* C9 witness: after one Put and no removal, a successful call has returned
\* an item that is no longer the one stored: a Set has replaced it.
RoundTripWitness ==
    /\ nPut = 1
    /\ nRem = 0
    /\ err = "nil"
    /\ retV # Zero
    /\ data # <<retV>>

\* C10 -- Density: Len() is the number of Puts minus the number of
\* successful removals, the items occupy exactly positions 0..Len()-1, and
\* the stored values are, as a multiset, the current values of the items
\* inserted and not removed.
Density ==
    /\ SivLen = nPut - nRem
    /\ DOMAIN data = 1..(nPut - nRem)
    /\ Cardinality(DOMAIN live) = SivLen
    /\ \A v \in Values \cup {Zero} :
           Cardinality({p \in DOMAIN data : data[p] = v})
             = Cardinality({h \in DOMAIN live : live[h] = v})

\* C10 witness: items remain after a removal.
DensityWitness ==
    /\ lastRemoved # NoHandle
    /\ nRem > 0
    /\ Len(data) > 0

PopIsRemoveLast ==
    [][viaPop' =>
          IF Len(data) = 0
          THEN err' = "panic" /\ UNCHANGED <<core, hist>>
          ELSE \A h \in Handles : h = At(meta, Len(data) - 1) =>
                  /\ err' = "nil"
                  /\ retV' = At(data, Len(data) - 1)
                  /\ RemoveRes(h).err = "nil"
                  /\ data' = RemoveRes(h).data
                  /\ indices' = RemoveRes(h).indices
                  /\ meta' = RemoveRes(h).meta
                  /\ data' = SubSeq(data, 1, Len(data) - 1)
                  /\ h \in DOMAIN live
                  /\ h \in dead'
                  /\ Errs(h)' = {"ErrExpired"}]_vars

\* C12 witness: Pop has just returned an item and items remain.
PopIsRemoveLastWitness ==
    /\ viaPop
    /\ err = "nil"
    /\ Len(data) > 0

\* C13 -- No side effects: a call that returns ErrInvalid or ErrExpired
\* leaves data, meta and indices unchanged; so does every Get; a successful
\* Set changes the item at the resolved position only.
NoSideEffects ==
    [][/\ err' \in {"ErrInvalid", "ErrExpired"} => UNCHANGED <<data, indices, meta>>
       /\ UNCHANGED <<data, indices, meta>> \/ \A h \in Handles : ~Get(h)
       /\ (retH' = NoHandle /\ err' = "nil" /\ nRem' = nRem /\ ~viaPop'
             /\ <<data, indices, meta>>' # <<data, indices, meta>>) =>
              \A h \in Handles :
                  \/ /\ indices' = indices
                     /\ meta' = meta
                     /\ Len(data') = Len(data)
                     /\ \A q \in 0..(Len(data) - 1) :
                            q # findID(h).id => At(data', q) = At(data, q)
                  \/ \A v \in Values : ~Set(h, v)]_vars

\* C13 witness: with two live items, a call has just been rejected with
\* ErrInvalid.
NoSideEffectsWitness ==
    /\ Len(data) >= 2
    /\ err = "ErrInvalid"

\* C14 -- Iteration: Iter2 yields one pair per live position, in position
\* order; each pair's handle is valid, is the handle Put returned for that
\* item, and Get on it gives the pair's item; Iter yields the same items in
\* the same order; a consumer that stops early gets a prefix.
IterationWithHandles ==
    LET out == Iter2Yield(0)
        upto(k) == IF k < Len(data) THEN k ELSE Len(data)
    IN /\ Len(out) = SivLen
       /\ \A p \in 1..Len(out) :
              /\ out[p].v = data[p]
              /\ GetRes(out[p].h) = [item |-> out[p].v, err |-> "nil"]
              /\ out[p].h \in DOMAIN live
              /\ live[out[p].h] = out[p].v
       /\ \A p, q \in 1..Len(out) : p # q => out[p].h # out[q].h
       /\ {out[p].h : p \in 1..Len(out)} = DOMAIN live
       /\ IterYield(0) = [p \in 1..Len(out) |-> out[p].v]
       /\ \A k \in 1..(MaxLen + 1) :
              /\ IterYield(k) = SubSeq(IterYield(0), 1, upto(k))
              /\ Iter2Yield(k) = SubSeq(out, 1, upto(k))

\* C14 witness: the first pair Iter2 yields carries a reference id other
\* than 0: iteration order is no longer insertion order.
IterationWithHandlesWitness ==
    /\ Len(Iter2Yield(0)) >= 1
    /\ Iter2Yield(0)[1].h.rid # 0

\* C15 as stated -- len(data) = len(meta) in every reachable state.
LenDataEqLenMeta ==
    Len(data) = Len(meta)

\* C15 amended -- len(data) <= len(meta) in every reachable state, with
\* equality exactly when every removal so far has been followed by a Put
\* that reused its slot; right after a removal, len(data) < len(meta).
LenDataAtMostLenMeta ==
    /\ Len(data) <= Len(meta)
    /\ Len(data) = Len(meta) <=> nRem = nPut - nAlloc
    /\ lastRemoved # NoHandle => Len(data) < Len(meta)

\* C15 witness: two removals are outstanding: meta is two longer than data.
LenDataAtMostLenMetaWitness ==
    /\ lastRemoved # NoHandle
    /\ Len(meta) = Len(data) + 2

\* C16 -- Indirection consistency: meta and indices have equal length and
\* are inverse to each other over all slots, occupied or freed; no two
\* slots carry the same reference id; the indirection entry of a freed slot
\* that Put is about to reuse, and of the handle Put has returned, is the
\* item's position.
IndirectionConsistency ==
    /\ Len(meta) = Len(indices)
    /\ \A p \in 0..(Len(meta) - 1) :
           /\ At(meta, p).rid \in 0..(Len(indices) - 1)
           /\ At(indices, At(meta, p).rid) = p
    /\ \A r \in 0..(Len(indices) - 1) :
           /\ At(indices, r) \in 0..(Len(meta) - 1)
           /\ At(meta, At(indices, r)).rid = r
    /\ \A p, q \in 0..(Len(meta) - 1) : p # q => At(meta, p).rid # At(meta, q).rid
    /\ Len(meta) > Len(data) => At(indices, At(meta, Len(data)).rid) = Len(data)
    /\ retH # NoHandle => At(indices, retH.rid) = Len(data) - 1

\* C16 witness: with a freed slot outstanding, reference id 0 is bound to a
\* position other than 0.
IndirectionConsistencyWitness ==
    /\ Len(meta) > Len(data)
    /\ Len(data) >= 1
    /\ At(indices, 0) # 0

\* C17 -- len(indices) >= Len(), the surplus is the number of successful
\* removals minus the number of Puts that reused a slot, a removal leaves
\* its freed slot right after the live region, and the freed slots are
\* exactly positions Len()..len(meta)-1.
FreedRun ==
    /\ Len(indices) >= SivLen
    /\ Len(indices) - SivLen = nRem - (nPut - nAlloc)
    /\ lastRemoved # NoHandle =>
           /\ Len(meta) > Len(data)
           /\ At(meta, Len(data)) = [rid |-> lastRemoved.rid, vid |-> lastRemoved.vid + 1]
    /\ \A p \in 0..(Len(meta) - 1) :
           p >= Len(data) <=> ~(\E h \in DOMAIN live : h.rid = At(meta, p).rid)

\* C17 witness: after a removal, with an earlier removal's slot already
\* reused, a freed slot is outstanding.
FreedRunWitness ==
    /\ lastRemoved # NoHandle
    /\ nPut > nAlloc
    /\ Len(meta) > Len(data)

\* C18 -- Bounded growth: the indirection table never shrinks; it grows
\* only in a Put made when no freed slot exists, by one entry, for the
\* reference id equal to the new item's position, with generation 0; the
\* number of reference ids allocated is the largest Len() so far.
BoundedGrowth ==
    [][/\ Len(indices') >= Len(indices)
       /\ Len(indices') # Len(indices) =>
              /\ Len(indices') = Len(indices) + 1
              /\ Len(meta) = Len(data)
              /\ Len(data') = Len(data) + 1
              /\ retH' = [rid |-> Len(data), vid |-> 0]
              /\ At(indices', Len(data)) = Len(data)
              /\ At(meta', Len(data)) = retH'
       /\ Len(indices') = maxLen'
       /\ nAlloc' = maxLen']_vars

\* C18 witness: Put has returned more often than the container ever had
\* items, and the container is at its largest size.
BoundedGrowthWitness ==
    /\ retH # NoHandle
    /\ nPut > maxLen
    /\ Len(data) = maxLen

\* C19 -- Generation parity: occupied slots have even generations, freed
\* slots odd ones; the handles returned by Put and yielded by Iter2 have
\* even generations; so no issued handle matches a freed slot, and findID
\* gives issued handles positions below Len() only.
GenerationParity ==
    /\ \A p \in 0..(Len(meta) - 1) :
           At(meta, p).vid % 2 = (IF p < Len(data) THEN 0 ELSE 1)
    /\ \A h \in Issued : h.vid % 2 = 0
    /\ \A p \in 1..Len(Iter2Yield(0)) : Iter2Yield(0)[p].h.vid % 2 = 0
    /\ \A h \in Issued :
           /\ findID(h).err = "nil" => findID(h).id < Len(data)
           /\ \A p \in Len(data)..(Len(meta) - 1) : At(meta, p) # h

\* C19 witness: a freed slot is outstanding beside a live item whose handle
\* Put has just returned on a reused reference id.
GenerationParityWitness ==
    /\ Len(meta) > Len(data)
    /\ retH # NoHandle
    /\ retH.vid > 0

\* No call is in progress.
Quiescent == \A t \in Goroutines : pc[t] = "idle"

\* The data-model invariants of the three slices.
DataModelOk ==
    /\ Len(meta) = Len(indices)
    /\ Len(data) <= Len(meta)
    /\ \A p \in 0..(Len(meta) - 1) :
           /\ InRange(indices, At(meta, p).rid)
           /\ At(indices, At(meta, p).rid) = p

\* Two goroutines whose last call was Put hold the same handle.
SameHandleTwice ==
    \E t, u \in Goroutines :
        /\ t # u
        /\ loc[t].op = "Put"
        /\ loc[u].op = "Put"
        /\ loc[t].ret # NoHandle
        /\ loc[t].ret = loc[u].ret

\* C20 -- Without serialization the container is not safe: as long as calls
\* never overlap (each runs as one step with respect to the others), no
\* goroutine faults and, between calls, the data-model invariants hold and
\* no two Puts have returned the same handle; with overlapping calls a
\* state breaking them is reachable (the witness).
SerializedIsSafe ==
    ~overlap =>
        /\ \A t \in Goroutines : pc[t] # "panicked"
        /\ Quiescent => (DataModelOk /\ ~SameHandleTwice)

\* C20 witness: after overlapping calls have all returned, two Puts have
\* returned the same handle and the data-model invariants are broken.
UnserializedBreaks ==
    /\ overlap
    /\ Quiescent
    /\ SameHandleTwice
    /\ ~DataModelOk

====
